---- MODULE Spec2Model ----
(***************************************************************************)
(* Model of scripts/sync-release.py: the ReleaseSyncer class.              *)
(*                                                                         *)
(* One run of sync_release(tag, force) is a sequential process whose       *)
(* position is pc.  Every call of _make_request is unrolled into its loop  *)
(* iterations (one transport call each); the transport, the clock and the  *)
(* file system are the environment and answer nondeterministically.        *)
(*                                                                         *)
(* File names are sequences of code points, so that Python's sorted() on   *)
(* str (code point order) is modelled by what it does.                     *)
(***************************************************************************)
EXTENDS Integers, Sequences, FiniteSets, TLC

(* ------------------------------ bounds --------------------------------- *)

\* longest asset list of a source release
MaxAssets == 2

(* ------------------------- program constants --------------------------- *)

max_retries == 3
base_delay == 1
MinWait == 60

\* "checksums.txt"
ManifestName == <<99, 104, 101, 99, 107, 115, 117, 109, 115, 46, 116, 120, 116>>

\* asset names a source release may use: "a", "ab" and "checksums.txt"
Names == {<<97>>, <<97, 98>>, ManifestName}

\* the tag of the release (a url argument; one value is enough)
Tag == <<118, 49>>

\* release ids and html urls the destination may answer with
ReleaseIds == {<<1>>, <<2>>}
Urls == {"html_url_1", "html_url_2"}

\* values int(time.time()) may read, and values of X-RateLimit-Reset
\* (0 models an absent header as well as the header 0: headers.get(.., 0))
Times == {100, 150}
Resets == {0, 130, 300}

(* --------------------------- transport outcomes ------------------------ *)

\* what self.session.request(...) does: a response with a status, or a
\* requests.exceptions.RequestException (ConnectionError, Timeout)
Outcomes ==
    {[kind |-> "resp", status |-> 200, reset |-> 0],
     [kind |-> "resp", status |-> 404, reset |-> 0],
     [kind |-> "exc", status |-> 0, reset |-> 0]}
    \cup {[kind |-> "resp", status |-> 429, reset |-> r] : r \in Resets}

\* outcomes of the bare requests.get of a download / requests.post of an upload
DownloadOutcomes == {"ok", "http_error", "conn_error", "stream_error"}
UploadOutcomes == {"ok", "http_error", "conn_error"}
ChecksumOutcomes == {"ok", "open_error", "write_error"}

AssetLists == UNION {[1..n -> Names] : n \in 0..MaxAssets}

(* ------------------------------- helpers ------------------------------- *)

Max(a, b) == IF a >= b THEN a ELSE b

Min(a, b) == IF a <= b THEN a ELSE b

\* str.__lt__: code point order, a proper prefix sorts first
LexLess(a, b) ==
    \E i \in 1..(Min(Len(a), Len(b)) + 1) :
        /\ \A j \in 1..(i - 1) : a[j] = b[j]
        /\ \/ i = Len(a) + 1 /\ i <= Len(b)
           \/ i <= Len(a) /\ i <= Len(b) /\ a[i] < b[i]

RECURSIVE Sorted(_)
\* sorted(checksums.items()): keys of a dict are distinct, so the order of
\* the (filename, checksum) pairs is the order of the file names
Sorted(S) ==
    IF S = {} THEN <<>>
    ELSE LET m == CHOOSE x \in S : \A y \in S \ {x} : LexLess(x, y)
         IN <<m>> \o Sorted(S \ {m})

Range(s) == {s[i] : i \in 1..Len(s)}

\* open(dir / name, 'w' or 'wb'): creates the file or replaces what it holds
WriteFile(dir, name, holds) ==
    [n \in (DOMAIN dir) \cup {name} |-> IF n = name THEN holds ELSE dir[n]]

(* -------------------------------- state -------------------------------- *)

VARIABLES
    pc,             \* position of the run of sync_release
    force,          \* the force argument
    release_info,   \* assets of the fetched source release (names, in order)
    dirExists,      \* Path("temp_assets").exists()
    staging,        \* files in temp_assets: name -> what the file holds
    asset_files,    \* the list asset_files / downloaded_files
    hashed,         \* file names handed to generate_checksums and hashed
    manifest,       \* file names of the lines of checksums.txt, in order
    calls,          \* requests issued, in order: [op, arg]
    rstate,         \* state of the current call of _make_request
    attempt,        \* its loop variable
    outs,           \* the transport outcomes it has seen
    slept,          \* its calls of time.sleep: [kind, dur, now]
    uploaded,       \* names of the assets uploaded so far, in order
    exists,         \* result of check_public_release_exists
    deleted,        \* result of delete_public_release ("unset" before)
    release_id,     \* id read by delete_public_release
    public_release, \* html_url of the release the POST created
    public_url,     \* value sync_release returns
    err,            \* exception in flight ("none" when there is none)
    cause,          \* <<e>>: the exception the GitHubAPIError of _make_request wraps
    outcome,        \* "running", "returned" or "raised"
    cleanups,       \* number of runs of the finally block
    dry_run         \* main was started with --dry-run

reqvars == <<rstate, attempt, outs, slept, cause>>

fsvars == <<dirExists, staging, asset_files, hashed, manifest>>

vars == <<pc, force, release_info, dirExists, staging, asset_files, hashed,
          manifest, calls, rstate, attempt, outs, slept, uploaded, exists,
          deleted, release_id, public_release, public_url, err, cause, outcome, cleanups,
          dry_run>>

Init ==
    /\ pc = "start"
    /\ force = FALSE
    /\ release_info = <<>>
    /\ dirExists = FALSE
    /\ staging = <<>>
    /\ asset_files = <<>>
    /\ hashed = <<>>
    /\ manifest = <<>>
    /\ calls = <<>>
    /\ rstate = "idle"
    /\ attempt = 0
    /\ outs = <<>>
    /\ slept = <<>>
    /\ uploaded = <<>>
    /\ exists = FALSE
    /\ deleted = "unset"
    /\ release_id = <<>>
    /\ public_release = "none"
    /\ public_url = "none"
    /\ err = "none"
    /\ cause = <<>>
    /\ outcome = "running"
    /\ cleanups = 0
    /\ dry_run = FALSE

(* ----------------------------- _make_request --------------------------- *)

\* response.status_code == 429 and int(headers.get('X-RateLimit-Reset', 0))
IsRateLimited(o) == o.kind = "resp" /\ o.status = 429 /\ o.reset # 0

\* response.raise_for_status() raises HTTPError for 4xx and 5xx
RaisesForStatus(o) == o.kind = "resp" /\ o.status >= 400

\* variant: an except clause that catches connection errors only
CaughtConnectionOnly(o) == o.kind = "exc"

\* except requests.exceptions.RequestException: HTTPError is one of them
CaughtForRetry(o) == o.kind = "exc" \/ RaisesForStatus(o)

\* variant: the wait without its floor of 60
RateLimitWaitNoFloor(reset, now) == reset - now

\* wait_time = max(reset_time - int(time.time()), 60)
RateLimitWait(reset, now) == Max(reset - now, MinWait)

\* variant: the exponent counted from 1
BackoffFromOne(a) == base_delay * (2 ^ (a + 1))

\* delay = base_delay * (2 ** attempt)
Backoff(a) == base_delay * (2 ^ a)

\* a caller enters _make_request(method, url)
StartRequest(op, arg) ==
    /\ calls' = Append(calls, [op |-> op, arg |-> arg])
    /\ rstate' = "running"
    /\ attempt' = 0
    /\ outs' = <<>>
    /\ slept' = <<>>
    /\ cause' = <<>>

\* one iteration of "for attempt in range(max_retries)"
MakeRequestAttempt ==
    /\ dry_run' = dry_run
    /\ rstate = "running"
    /\ \E o \in Outcomes, now \in Times :
        /\ outs' = Append(outs, o)
        /\ IF IsRateLimited(o)
           THEN \* sleep, then "continue": the for loop moves to the next
                \* attempt, and ends without a return after the last one
                /\ slept' = Append(slept, [kind |-> "ratelimit", now |-> now,
                                           dur |-> RateLimitWait(o.reset, now)])
                /\ attempt' = attempt + 1
                /\ rstate' = IF attempt + 1 < max_retries THEN "running" ELSE "none"
                /\ cause' = cause
           ELSE IF ~(o.kind = "exc" \/ RaisesForStatus(o))
           THEN \* return response
                /\ rstate' = "returned"
                /\ UNCHANGED <<attempt, slept, cause>>
           ELSE IF ~CaughtForRetry(o)
           THEN \* an exception no except clause matches leaves the function
                /\ rstate' = "escaped"
                /\ cause' = <<o>>
                /\ UNCHANGED <<attempt, slept>>
           ELSE IF attempt = max_retries - 1
           THEN \* raise GitHubAPIError(f"... {e}")
                /\ rstate' = "raised"
                /\ cause' = <<o>>
                /\ UNCHANGED <<attempt, slept>>
           ELSE /\ slept' = Append(slept, [kind |-> "backoff", now |-> 0,
                                           dur |-> Backoff(attempt)])
                /\ attempt' = attempt + 1
                /\ rstate' = "running"
                /\ cause' = cause
    /\ UNCHANGED <<pc, force, release_info, dirExists, staging, asset_files,
                   hashed, manifest, calls, uploaded, exists, deleted, release_id,
                   public_release, public_url, err, outcome, cleanups>>

\* the exception a caller sees when it uses the result of _make_request
\* without catching anything: response.json() on None is an AttributeError
ErrorOf(rs) ==
    CASE rs = "raised" -> "GitHubAPIError"
      [] rs = "escaped" -> "HTTPError"
      [] rs = "none" -> "AttributeError"
      [] OTHER -> "none"

Finished == rstate \in {"returned", "none", "raised", "escaped"}

(* ------------------------------ sync_release --------------------------- *)

\* sync_release(tag, force) is called: get_release_info sends its GET
SyncRelease ==
    /\ pc = "start"
    /\ \E f \in BOOLEAN : force' = f
    /\ dry_run' = FALSE
    /\ pc' = "get_release_info"
    /\ StartRequest("GET_SOURCE", Tag)
    /\ UNCHANGED <<release_info, fsvars, uploaded, exists, deleted, release_id,
                   public_release, public_url, err, outcome, cleanups>>

\* variant: the manifest is written for an empty list of files as well
NeedsChecksumAlways(files) == TRUE

\* "if asset_files:" before create_checksums_file
NeedsChecksum(files) == files # <<>>

\* get_release_info returns or raises; on return download_release_assets
\* starts: mkdir, and with no assets it returns [] at once, the checksum
\* step is skipped and create_public_release sends its existence probe
GetReleaseInfoDone ==
    /\ dry_run' = dry_run
    /\ pc = "get_release_info"
    /\ Finished
    /\ IF rstate = "returned"
       THEN \E al \in AssetLists :
              /\ release_info' = al
              /\ dirExists' = TRUE
              /\ IF al = <<>>
                 THEN IF NeedsChecksum(<<>>)
                      THEN /\ pc' = "checksum"
                           /\ UNCHANGED <<calls, reqvars>>
                      ELSE /\ pc' = "check_exists"
                           /\ StartRequest("PROBE", Tag)
                 ELSE /\ pc' = "download"
                      /\ UNCHANGED <<calls, reqvars>>
              /\ err' = err
       ELSE \* raised before the inner try: no finally block on this path
            /\ err' = ErrorOf(rstate)
            /\ pc' = "except"
            /\ UNCHANGED <<release_info, dirExists, calls, reqvars>>
    /\ UNCHANGED <<force, staging, asset_files, hashed, manifest, uploaded,
                   exists, deleted, release_id, public_release, public_url, outcome,
                   cleanups>>

\* one iteration of the loop of download_release_assets: a bare
\* requests.get, raise_for_status, then the body is streamed to the file
DownloadAsset ==
    /\ dry_run' = dry_run
    /\ pc = "download"
    /\ LET i == Len(asset_files) + 1
           name == release_info[i]
       IN /\ calls' = Append(calls, [op |-> "DOWNLOAD", arg |-> name])
          /\ \E d \in DownloadOutcomes :
               CASE d = "ok" ->
                      /\ staging' = WriteFile(staging, name, "asset")
                      /\ asset_files' = Append(asset_files, name)
                      /\ pc' = IF i = Len(release_info) THEN "checksum" ELSE "download"
                      /\ err' = err
                 [] d = "stream_error" ->
                      \* iter_content raises with the file already open
                      /\ staging' = WriteFile(staging, name, "partial")
                      /\ err' = "ConnectionError"
                      /\ pc' = "finally"
                      /\ UNCHANGED asset_files
                 [] d = "http_error" ->
                      /\ err' = "HTTPError"
                      /\ pc' = "finally"
                      /\ UNCHANGED <<staging, asset_files>>
                 [] d = "conn_error" ->
                      /\ err' = "ConnectionError"
                      /\ pc' = "finally"
                      /\ UNCHANGED <<staging, asset_files>>
    /\ UNCHANGED <<force, release_info, dirExists, hashed, manifest, reqvars,
                   uploaded, exists, deleted, release_id, public_release, public_url,
                   outcome, cleanups>>

\* generate_checksums(files): the files with is_file(), in list order
HashedFiles(files, dir) == SelectSeq(files, LAMBDA n : n \in DOMAIN dir)

\* the lines create_checksums_file writes: sorted(checksums.items())
ManifestLines(files, dir) == Sorted(Range(HashedFiles(files, dir)))

\* variant: a manifest that cannot be written is skipped and the release
\* is published without it
CreateChecksumsFileBestEffort ==
    /\ dry_run' = dry_run
    /\ pc = "checksum"
    /\ hashed' = HashedFiles(asset_files, staging)
    /\ \E c \in ChecksumOutcomes :
         IF c = "ok"
         THEN /\ manifest' = ManifestLines(asset_files, staging)
              /\ staging' = WriteFile(staging, ManifestName, "manifest")
              /\ asset_files' = Append(asset_files, ManifestName)
         ELSE UNCHANGED <<manifest, staging, asset_files>>
    /\ pc' = "check_exists"
    /\ StartRequest("PROBE", Tag)
    /\ UNCHANGED <<force, release_info, dirExists, uploaded, exists, deleted,
                   release_id, public_release, public_url, err, outcome,
                   cleanups>>

\* "if asset_files:" create_checksums_file and asset_files.append; then
\* create_public_release sends its existence probe
CreateChecksumsFile ==
    /\ dry_run' = dry_run
    /\ pc = "checksum"
    /\ hashed' = HashedFiles(asset_files, staging)
    /\ \E c \in ChecksumOutcomes :
         CASE c = "ok" ->
                /\ manifest' = ManifestLines(asset_files, staging)
                /\ staging' = WriteFile(staging, ManifestName, "manifest")
                /\ asset_files' = Append(asset_files, ManifestName)
                /\ pc' = "check_exists"
                /\ StartRequest("PROBE", Tag)
                /\ err' = err
           [] c = "open_error" ->
                /\ err' = "OSError"
                /\ pc' = "finally"
                /\ UNCHANGED <<manifest, staging, asset_files, calls, reqvars>>
           [] c = "write_error" ->
                /\ staging' = WriteFile(staging, ManifestName, "partial")
                /\ err' = "OSError"
                /\ pc' = "finally"
                /\ UNCHANGED <<manifest, asset_files, calls, reqvars>>
    /\ UNCHANGED <<force, release_info, dirExists, uploaded, exists,
                   deleted, release_id, public_release, public_url, outcome, cleanups>>

(* -------------------------- create_public_release ---------------------- *)

\* the exceptions create_public_release raises itself are GitHubAPIError
\* with these messages; "RequestFailed" is the one of _make_request
GitHubAPIErrors == {"AlreadyExists", "DeleteFailed", "RequestFailed"}

\* the exception that reaches create_public_release from a call of
\* _make_request it does not guard
RaisedBy(rs) == IF rs = "raised" THEN "RequestFailed" ELSE ErrorOf(rs)

\* check_public_release_exists: True unless _make_request raised
\* GitHubAPIError (a None result raises nothing)
ProbeResult(rs) == rs \in {"returned", "none"}

\* variant: the force flag is not looked at, an existing release is deleted
PublishDecisionAlwaysDelete(e, f) == IF e THEN "delete" ELSE "create"

\* variant: with force the release is created without deleting the old one
PublishDecisionNoDelete(e, f) ==
    IF e /\ ~f THEN "AlreadyExists" ELSE "create"

\* what create_public_release does with the probe's answer
PublishDecision(e, f) ==
    IF e THEN (IF ~f THEN "AlreadyExists" ELSE "delete") ELSE "create"

\* variant: the result of delete_public_release is ignored
AfterDeleteIgnored(ok) == "create"

\* "if not self.delete_public_release(tag_name): raise"
AfterDelete(ok) == IF ok THEN "create" ELSE "DeleteFailed"

\* the existence probe of create_public_release has finished
CheckExistsDone ==
    /\ dry_run' = dry_run
    /\ pc = "check_exists"
    /\ Finished
    /\ IF rstate = "escaped"
       THEN /\ err' = RaisedBy(rstate)
            /\ pc' = "finally"
            /\ UNCHANGED <<exists, calls, reqvars>>
       ELSE /\ exists' = ProbeResult(rstate)
            /\ LET d == PublishDecision(ProbeResult(rstate), force)
               IN CASE d = "AlreadyExists" ->
                         /\ err' = "AlreadyExists"
                         /\ pc' = "finally"
                         /\ UNCHANGED <<calls, reqvars>>
                    [] d = "delete" ->
                         \* delete_public_release looks the release up
                         /\ pc' = "delete_lookup"
                         /\ StartRequest("LOOKUP", Tag)
                         /\ err' = err
                    [] d = "create" ->
                         /\ pc' = "create"
                         /\ StartRequest("CREATE", Tag)
                         /\ err' = err
    /\ UNCHANGED <<force, release_info, fsvars, uploaded, deleted,
                   release_id, public_release, public_url, outcome, cleanups>>

\* create_public_release goes on after delete_public_release returned r
ContinueAfterDelete(r) ==
    /\ deleted' = (IF r THEN "true" ELSE "false")
    /\ IF AfterDelete(r) = "create"
       THEN /\ pc' = "create"
            /\ StartRequest("CREATE", Tag)
            /\ err' = err
       ELSE /\ err' = AfterDelete(r)
            /\ pc' = "finally"
            /\ UNCHANGED <<calls, reqvars>>

\* delete_public_release: the GET by tag has finished; release_data['id']
DeleteLookupDone ==
    /\ dry_run' = dry_run
    /\ pc = "delete_lookup"
    /\ Finished
    /\ CASE rstate = "returned" ->
              \E id \in ReleaseIds :
                /\ release_id' = id
                /\ pc' = "delete"
                /\ StartRequest("DELETE", id)
                /\ UNCHANGED <<err, deleted>>
         [] rstate = "raised" ->
              \* except GitHubAPIError: return False
              /\ ContinueAfterDelete(FALSE)
              /\ UNCHANGED release_id
         [] OTHER ->
              \* None.json() or an HTTPError: not a GitHubAPIError
              /\ err' = ErrorOf(rstate)
              /\ pc' = "finally"
              /\ UNCHANGED <<release_id, deleted, calls, reqvars>>
    /\ UNCHANGED <<force, release_info, fsvars, uploaded, exists,
                   public_release, public_url, outcome, cleanups>>

\* delete_public_release: the DELETE by id has finished (its result is
\* not looked at, so a None result counts as deleted)
DeleteDone ==
    /\ dry_run' = dry_run
    /\ pc = "delete"
    /\ Finished
    /\ IF rstate = "escaped"
       THEN /\ err' = ErrorOf(rstate)
            /\ pc' = "finally"
            /\ UNCHANGED <<deleted, calls, reqvars>>
       ELSE ContinueAfterDelete(rstate # "raised")
    /\ UNCHANGED <<force, release_info, fsvars, uploaded, exists, release_id,
                   public_release, public_url, outcome, cleanups>>

\* the create-release POST has finished: public_release = response.json()
CreateDone ==
    /\ dry_run' = dry_run
    /\ pc = "create"
    /\ Finished
    /\ IF rstate = "returned"
       THEN \E u \in Urls :
              /\ public_release' = u
              /\ IF asset_files # <<>>
                 THEN pc' = "upload" /\ public_url' = public_url
                 ELSE pc' = "finally" /\ public_url' = u
              /\ err' = err
       ELSE /\ err' = RaisedBy(rstate)
            /\ pc' = "finally"
            /\ UNCHANGED <<public_release, public_url>>
    /\ UNCHANGED <<force, release_info, fsvars, calls, reqvars, uploaded,
                   exists, deleted, release_id, outcome, cleanups>>

\* variant: the list is walked from its end
UploadTargetReversed(files, i) == files[Len(files) - i + 1]

\* "for i, asset_file in enumerate(asset_files, 1)": the i-th upload
UploadTarget(files, i) == files[i]

\* one iteration of the upload loop: upload_asset is a bare requests.post
\* followed by raise_for_status
UploadAsset ==
    /\ dry_run' = dry_run
    /\ pc = "upload"
    /\ LET i == Len(uploaded) + 1
           name == UploadTarget(asset_files, i)
       IN /\ calls' = Append(calls, [op |-> "UPLOAD", arg |-> name])
          /\ \E u \in UploadOutcomes :
               IF u = "ok"
               THEN /\ uploaded' = Append(uploaded, name)
                    /\ IF i = Len(asset_files)
                       THEN pc' = "finally" /\ public_url' = public_release
                       ELSE pc' = "upload" /\ public_url' = public_url
                    /\ err' = err
               ELSE /\ err' = IF u = "http_error" THEN "HTTPError"
                                                  ELSE "ConnectionError"
                    /\ pc' = "finally"
                    /\ UNCHANGED <<uploaded, public_url>>
    /\ UNCHANGED <<force, release_info, fsvars, reqvars, exists, deleted, release_id,
                   public_release, outcome, cleanups>>

(* ------------------------- finally / except ---------------------------- *)

\* variant: the directory is removed after a successful publish only
CleanupOnSuccessOnly ==
    /\ dry_run' = dry_run
    /\ pc = "finally"
    /\ IF dirExists /\ err = "none"
       THEN dirExists' = FALSE /\ staging' = <<>>
       ELSE UNCHANGED <<dirExists, staging>>
    /\ cleanups' = cleanups + 1
    /\ IF err = "none"
       THEN pc' = "done" /\ outcome' = "returned"
       ELSE pc' = "except" /\ outcome' = outcome
    /\ UNCHANGED <<force, release_info, asset_files, hashed, manifest, calls,
                   reqvars, uploaded, exists, deleted, release_id,
                   public_release, public_url, err>>

\* variant: a return inside the finally block, the exception in flight
\* is dropped
CleanupSwallows ==
    /\ dry_run' = dry_run
    /\ pc = "finally"
    /\ IF dirExists
       THEN dirExists' = FALSE /\ staging' = <<>>
       ELSE UNCHANGED <<dirExists, staging>>
    /\ cleanups' = cleanups + 1
    /\ pc' = "done"
    /\ outcome' = "returned"
    /\ UNCHANGED <<force, release_info, asset_files, hashed, manifest, calls,
                   reqvars, uploaded, exists, deleted, release_id,
                   public_release, public_url, err>>

\* finally: if download_dir.exists(): shutil.rmtree(download_dir)
Cleanup ==
    /\ dry_run' = dry_run
    /\ pc = "finally"
    /\ IF dirExists
       THEN dirExists' = FALSE /\ staging' = <<>>
       ELSE UNCHANGED <<dirExists, staging>>
    /\ cleanups' = cleanups + 1
    /\ IF err = "none"
       THEN pc' = "done" /\ outcome' = "returned"
       ELSE pc' = "except" /\ outcome' = outcome
    /\ UNCHANGED <<force, release_info, asset_files, hashed, manifest, calls,
                   reqvars, uploaded, exists, deleted, release_id, public_release,
                   public_url, err>>

\* variant: the except clause cleans up once more
ReraiseWithCleanup ==
    /\ dry_run' = dry_run
    /\ pc = "except"
    /\ outcome' = "raised"
    /\ pc' = "done"
    /\ cleanups' = cleanups + 1
    /\ dirExists' = FALSE
    /\ staging' = <<>>
    /\ UNCHANGED <<force, release_info, asset_files, hashed, manifest, calls,
                   reqvars, uploaded, exists, deleted, release_id,
                   public_release, public_url, err>>

\* except Exception as e: logger.error(...); raise
Reraise ==
    /\ dry_run' = dry_run
    /\ pc = "except"
    /\ outcome' = "raised"
    /\ pc' = "done"
    /\ UNCHANGED <<force, release_info, fsvars, calls, reqvars, uploaded,
                   exists, deleted, release_id, public_release, public_url, err,
                   cleanups>>

(* --------------------------- main, --dry-run --------------------------- *)

\* main with args.dry_run: get_release_info sends its GET
MainDryRun ==
    /\ pc = "start"
    /\ \E f \in BOOLEAN : force' = f
    /\ dry_run' = TRUE
    /\ pc' = "dry_get_release_info"
    /\ StartRequest("GET_SOURCE", Tag)
    /\ UNCHANGED <<release_info, fsvars, uploaded, exists, deleted, release_id,
                   public_release, public_url, err, outcome, cleanups>>

\* the dry run has its release info (or "except Exception: sys.exit(1)")
\* and probes the destination
DryRunInfoDone ==
    /\ pc = "dry_get_release_info"
    /\ Finished
    /\ IF rstate = "returned"
       THEN /\ \E al \in AssetLists : release_info' = al
            /\ pc' = "dry_check_exists"
            /\ StartRequest("PROBE", Tag)
            /\ UNCHANGED <<err, outcome>>
       ELSE /\ err' = ErrorOf(rstate)
            /\ outcome' = "exit1"
            /\ pc' = "done"
            /\ UNCHANGED <<release_info, calls, reqvars>>
    /\ UNCHANGED <<force, fsvars, uploaded, exists, deleted, release_id,
                   public_release, public_url, cleanups, dry_run>>

\* variant: the "else:" of "if args.dry_run:" is lost, the sync runs after
\* the report
DryRunProbeDoneFallsThrough ==
    /\ pc = "dry_check_exists"
    /\ Finished
    /\ exists' = ProbeResult(rstate)
    /\ pc' = "get_release_info"
    /\ StartRequest("GET_SOURCE", Tag)
    /\ UNCHANGED <<force, release_info, fsvars, uploaded, deleted, release_id,
                   public_release, public_url, err, outcome, cleanups,
                   dry_run>>

\* the probe of the dry run has finished: the action is logged, nothing
\* else is done
DryRunProbeDone ==
    /\ pc = "dry_check_exists"
    /\ Finished
    /\ IF rstate = "escaped"
       THEN /\ err' = ErrorOf(rstate)
            /\ outcome' = "exit1"
            /\ UNCHANGED exists
       ELSE /\ exists' = ProbeResult(rstate)
            /\ outcome' = "exit0"
            /\ err' = err
    /\ pc' = "done"
    /\ UNCHANGED <<force, release_info, fsvars, calls, reqvars, uploaded,
                   deleted, release_id, public_release, public_url, cleanups,
                   dry_run>>

Next ==
    \/ SyncRelease
    \/ MakeRequestAttempt
    \/ GetReleaseInfoDone
    \/ DownloadAsset
    \/ CreateChecksumsFile
    \/ CheckExistsDone
    \/ DeleteLookupDone
    \/ DeleteDone
    \/ CreateDone
    \/ UploadAsset
    \/ Cleanup
    \/ Reraise
    \/ MainDryRun
    \/ DryRunInfoDone
    \/ DryRunProbeDone

Spec == Init /\ [][Next]_vars

TypeOK ==
    /\ pc \in {"start", "get_release_info", "download", "checksum",
               "check_exists", "delete_lookup", "delete", "create", "upload",
               "finally", "except", "done", "dry_get_release_info",
               "dry_check_exists"}
    /\ attempt \in 0..max_retries
    /\ Len(outs) <= max_retries
    /\ outcome \in {"running", "returned", "raised", "exit0", "exit1"}

(* ------------------------------ properties ----------------------------- *)

\* the operations among the first n requests issued
OpsUpTo(n) == {calls[i].op : i \in 1..n}

Ops == OpsUpTo(Len(calls))

\* the requests sent to the destination repository, in order
DestinationCalls ==
    SelectSeq(calls, LAMBDA c : c.op \notin {"GET_SOURCE", "DOWNLOAD"})

\* C1: once sync_release has returned or raised, whatever step failed,
\* the staging directory temp_assets does not exist.
CleanupAlways ==
    outcome \in {"returned", "raised"} => (~dirExists /\ DOMAIN staging = {})

\* a run that staged files, failed in an upload and has raised
CleanupAlwaysWitness ==
    /\ outcome = "raised"
    /\ err = "HTTPError"
    /\ Len(uploaded) >= 1
    /\ cleanups = 1
    /\ ~dirExists

\* C2: with force false and a probe that reports the release as existing,
\* create_public_release fails with the already-exists GitHubAPIError and
\* no create, delete or upload request is issued.
NoForceExistingFails ==
    (exists /\ ~force /\ ~dry_run) =>
        /\ pc \in {"finally", "except", "done"}
        /\ err = "AlreadyExists"
        /\ err \in GitHubAPIErrors
        /\ outcome # "returned"
        /\ Ops \cap {"CREATE", "DELETE", "UPLOAD"} = {}

NoForceExistingFailsWitness ==
    /\ exists /\ ~force /\ ~dry_run
    /\ outcome = "raised"
    /\ err = "AlreadyExists"
    /\ asset_files # <<>>

\* C3: with force true, an existing release and delete_public_release
\* returning false, create_public_release fails with the delete-failure
\* error, and neither the create POST nor an upload is ever issued.
DeleteFailureStopsCreate ==
    (deleted = "false") =>
        /\ force /\ exists
        /\ pc \in {"finally", "except", "done"}
        /\ err = "DeleteFailed"
        /\ outcome # "returned"
        /\ Ops \cap {"CREATE", "UPLOAD"} = {}

\* the DELETE itself was sent and failed
DeleteFailureStopsCreateWitness ==
    /\ deleted = "false"
    /\ "DELETE" \in Ops
    /\ outcome = "raised"

\* C4: with force true, an existing release and a successful run, the
\* destination sees: probe, lookup by tag, DELETE of the id looked up, POST
\* create, one upload per staged asset in list order; the html_url of the
\* created release is returned; a DELETE always comes before the POST.
ForceOverwriteOrder ==
    /\ (force /\ exists /\ outcome = "returned") =>
          /\ DestinationCalls =
                <<[op |-> "PROBE", arg |-> Tag],
                  [op |-> "LOOKUP", arg |-> Tag],
                  [op |-> "DELETE", arg |-> release_id],
                  [op |-> "CREATE", arg |-> Tag]>>
                \o [i \in 1..Len(asset_files) |->
                       [op |-> "UPLOAD", arg |-> asset_files[i]]]
          /\ public_url = public_release
          /\ public_url \in Urls
    /\ \A i, j \in 1..Len(calls) :
          (calls[i].op = "DELETE" /\ calls[j].op = "CREATE") => i < j
    /\ (force /\ exists /\ "CREATE" \in Ops) => "DELETE" \in Ops

ForceOverwriteOrderWitness ==
    /\ force /\ exists /\ outcome = "returned"
    /\ deleted = "true"
    /\ Len(uploaded) = 3

(* properties of _make_request: outs[i] is the outcome of the i-th         *)
(* transport call of the current (or last) call of _make_request, and      *)
(* slept[i] the sleep that followed it                                      *)

IsSuccess(o) == o.kind = "resp" /\ o.status >= 200 /\ o.status < 300

\* a non-2xx status that the 429 branch does not handle
IsHttpError(o) == o.kind = "resp" /\ ~IsSuccess(o) /\ ~IsRateLimited(o)

AllRateLimited == \A i \in 1..Len(outs) : IsRateLimited(outs[i])

\* C5: a 429 with a reset header takes none of the 3 retry slots: after
\* any number of them _make_request is still waiting for the answer, and a
\* 2xx that follows is returned; rate limiting is never the end of a call.
RateLimitTakesNoSlot ==
    /\ (outs # <<>> /\ AllRateLimited) => rstate = "running"
    /\ \A i \in 1..Len(outs) :
          (IsSuccess(outs[i]) /\ \A j \in 1..(i - 1) : IsRateLimited(outs[j]))
             => rstate = "returned"

\* C6: a non-2xx status other than the handled 429 ends _make_request at
\* once: it is the only transport call, no sleep happens, and the HTTP
\* error leaves the function.
HttpErrorFailsImmediately ==
    \A i \in 1..Len(outs) :
        IsHttpError(outs[i]) =>
            /\ Len(outs) = 1
            /\ slept = <<>>
            /\ rstate \in {"raised", "escaped"}

\* C6 as amended: a non-2xx status other than the handled 429 is treated
\* like a network failure: on attempts 0 and 1 it is followed by the
\* backoff sleep 2^attempt and another transport call, on attempt 2 by a
\* GitHubAPIError that wraps it; the HTTPError itself never leaves.
HttpErrorIsRetried ==
    /\ rstate # "escaped"
    /\ \A i \in 1..Len(outs) :
          IsHttpError(outs[i]) =>
             IF i = max_retries
             THEN /\ rstate = "raised"
                  /\ cause = <<outs[i]>>
                  /\ Len(slept) = i - 1
             ELSE /\ Len(slept) >= i
                  /\ slept[i].kind = "backoff"
                  /\ slept[i].dur = 2 ^ (i - 1)
                  /\ (Len(outs) = i => rstate = "running")

\* three 404 answers in a row: three transport calls, sleeps of 1 and 2
HttpErrorIsRetriedWitness ==
    /\ Len(outs) = 3
    /\ \A i \in 1..3 : outs[i].status = 404
    /\ rstate = "raised"
    /\ Len(slept) = 2

\* C7: network failures get at most 3 transport calls, with sleeps of 1
\* and then 2 between them and none after the last; three failures raise
\* GitHubAPIError with the last failure as cause; a success is returned at
\* once and ends the call.
NetworkFailureRetries ==
    /\ Len(outs) <= 3
    /\ \A i \in 1..Len(outs) :
          /\ outs[i].kind = "exc" =>
                IF i = 3
                THEN /\ rstate = "raised"
                     /\ cause = <<outs[i]>>
                     /\ Len(slept) = 2
                ELSE /\ Len(slept) >= i
                     /\ slept[i].kind = "backoff"
                     /\ slept[i].dur = (IF i = 1 THEN 1 ELSE 2)
                     /\ (Len(outs) = i => rstate = "running")
          /\ IsSuccess(outs[i]) => (i = Len(outs) /\ rstate = "returned")
    /\ (Len(outs) = 3 /\ \A i \in 1..3 : outs[i].kind = "exc") =>
          (rstate = "raised" /\ [i \in 1..2 |-> slept[i].dur] = <<1, 2>>)

\* two network failures, then a success on the third and last attempt
NetworkFailureRetriesWitness ==
    /\ Len(outs) = 3
    /\ outs[1].kind = "exc" /\ outs[2].kind = "exc"
    /\ IsSuccess(outs[3])
    /\ rstate = "returned"
    /\ [i \in 1..2 |-> slept[i].dur] = <<1, 2>>

\* a 429 as first answer and a 200 as second
RateLimitedThenOk ==
    /\ Len(outs) = 2
    /\ outs[1].kind = "resp" /\ outs[1].status = 429
    /\ outs[2].kind = "resp" /\ outs[2].status = 200

\* C8: a 429 followed by a 200 gives the successful result of an immediate
\* 200, and the sleep between the two transport calls is at least
\* max(reset - now, 60), whatever the reset header is (also absent or 0).
RateLimitWaitAtLeast ==
    RateLimitedThenOk =>
        /\ rstate = "returned"
        /\ Len(slept) = 1
        /\ slept[1].dur >= Max(outs[1].reset - slept[1].now, 60)

\* C8 as amended: a 429 followed by a 200 gives the successful result of an
\* immediate 200; with a non-zero reset header the sleep between the two
\* transport calls is max(reset - now, 60); with an absent or zero reset
\* header the 429 is an ordinary HTTP error and the sleep is the backoff
\* of 1.
RateLimitWaitNonZeroReset ==
    RateLimitedThenOk =>
        /\ rstate = "returned"
        /\ Len(slept) = 1
        /\ IF outs[1].reset # 0
           THEN /\ slept[1].kind = "ratelimit"
                /\ slept[1].dur >= 60
                /\ slept[1].dur >= outs[1].reset - slept[1].now
                /\ slept[1].dur \in {60, outs[1].reset - slept[1].now}
           ELSE /\ slept[1].kind = "backoff"
                /\ slept[1].dur = 1

\* the reset lies less than 60 ahead (here in the past): the floor decides
RateLimitWaitNonZeroResetWitness ==
    /\ RateLimitedThenOk
    /\ rstate = "returned"
    /\ outs[1].reset = 130
    /\ slept[1].now = 150
    /\ slept[1].dur = 60

(* properties of the manifest *)

ManifestWritten ==
    ManifestName \in DOMAIN staging /\ staging[ManifestName] = "manifest"

PairwiseDistinct(s) ==
    \A i, j \in 1..Len(s) : s[i] = s[j] => i = j

\* C9: for a release whose N assets have pairwise distinct names, the
\* manifest written to the staging directory has exactly N entries, one
\* per staged file that is not the manifest, in ascending order of name.
ManifestMatchesStaged ==
    (ManifestWritten /\ PairwiseDistinct(release_info)) =>
        /\ Len(manifest) = Len(release_info)
        /\ Range(manifest) =
              {n \in DOMAIN staging : staging[n] # "manifest"}
        /\ \A i \in 1..(Len(manifest) - 1) :
              LexLess(manifest[i], manifest[i + 1])

\* C10: the manifest never has an entry named checksums.txt, and the
\* manifest's file is never among the files hashed.
ManifestSelfExclusion ==
    /\ ManifestName \notin Range(manifest)
    /\ ManifestName \notin Range(hashed)

(* properties of the whole run *)

Mutating == {"DELETE", "CREATE", "UPLOAD"}

Last(q) == q[Len(q)]

\* the uploads issued, in order
UploadCalls == SelectSeq(calls, LAMBDA c : c.op = "UPLOAD")

DownloadCalls == SelectSeq(calls, LAMBDA c : c.op = "DOWNLOAD")

\* asset_files when everything has been staged: the source assets in
\* release order, then the manifest
FullyStaged ==
    IF release_info = <<>> THEN <<>> ELSE release_info \o <<ManifestName>>

\* C11: for a source release without assets no manifest is ever written,
\* nothing is hashed, no upload is made, and the destination sees nothing
\* but the probe, the optional lookup and delete, and the create POST.
EmptyReleaseSkipsManifest ==
    (~dry_run /\ release_info = <<>> /\ pc \notin {"start", "get_release_info"})
        => /\ manifest = <<>>
           /\ hashed = <<>>
           /\ asset_files = <<>>
           /\ DOMAIN staging = {}
           /\ "UPLOAD" \notin Ops
           /\ Ops \subseteq {"GET_SOURCE", "PROBE", "LOOKUP", "DELETE", "CREATE"}

\* an empty release published over an existing one
EmptyReleaseSkipsManifestWitness ==
    /\ ~dry_run
    /\ release_info = <<>>
    /\ outcome = "returned"
    /\ "DELETE" \in Ops
    /\ "CREATE" \in Ops

\* C12: uploads follow the staged list (source assets in release order,
\* the manifest last): what has been uploaded is a prefix of it; the first
\* failing upload is the last request of the run, its error is raised, and
\* the created release is left as it is.
UploadsInListOrder ==
    /\ Len(uploaded) <= Len(asset_files)
    /\ \A i \in 1..Len(uploaded) : uploaded[i] = asset_files[i]
    /\ Len(UploadCalls) \in {Len(uploaded), Len(uploaded) + 1}
    /\ Len(UploadCalls) <= Len(asset_files)
    /\ \A i \in 1..Len(UploadCalls) : UploadCalls[i].arg = asset_files[i]
    /\ UploadCalls # <<>> => asset_files = release_info \o <<ManifestName>>
    /\ Len(UploadCalls) > Len(uploaded) =>
          /\ pc \in {"finally", "except", "done"}
          /\ err \in {"HTTPError", "ConnectionError"}
          /\ outcome # "returned"
          /\ Last(calls).op = "UPLOAD"
          /\ public_release \in Urls

\* the second of three uploads failed
UploadsInListOrderWitness ==
    /\ Len(asset_files) = 3
    /\ Len(uploaded) = 1
    /\ Len(UploadCalls) = 2
    /\ outcome = "raised"

\* C13: sync_release returns a URL only if the fetch, every download, the
\* manifest (for a non-empty release), the create POST and every upload,
\* the manifest's included, succeeded; after any failure it raises.
NoPartialSuccess ==
    /\ outcome = "returned" =>
          /\ err = "none"
          /\ Len(DownloadCalls) = Len(release_info)
          /\ asset_files = FullyStaged
          /\ (release_info # <<>> => Range(manifest) = Range(release_info))
          /\ "CREATE" \in Ops
          /\ uploaded = asset_files
          /\ public_url = public_release
          /\ public_url \in Urls
    /\ (~dry_run /\ pc = "done") => outcome \in {"returned", "raised"}
    /\ (~dry_run /\ pc = "done" /\ err # "none") => outcome = "raised"

\* all uploads but the manifest's succeeded, and the run has raised
NoPartialSuccessWitness ==
    /\ Len(asset_files) = 3
    /\ Len(uploaded) = 2
    /\ err # "none"
    /\ outcome = "raised"

\* C14: a dry run sends the source fetch and the destination probe and
\* nothing else: no create, delete or upload, and no staging directory.
DryRunReadOnly ==
    dry_run =>
        /\ Ops \subseteq {"GET_SOURCE", "PROBE"}
        /\ Len(calls) <= 2
        /\ Ops \cap Mutating = {}
        /\ ~dirExists
        /\ DOMAIN staging = {}
        /\ cleanups = 0

\* a dry run with --force over an existing release has ended
DryRunReadOnlyWitness ==
    /\ dry_run /\ force /\ exists
    /\ outcome = "exit0"

\* C15: check_public_release_exists never raises, and answers true only
\* when its GET got a successful response; every failed request gives
\* false.
ProbeTrueOnlyOnSuccess ==
    /\ (pc \in {"check_exists", "dry_check_exists"}) => rstate # "escaped"
    /\ (calls # <<>> /\ Last(calls).op = "PROBE"
          /\ pc \notin {"check_exists", "dry_check_exists"})
         => (exists <=> (outs # <<>> /\ IsSuccess(Last(outs))))

\* C16: delete_public_release never raises: a failed lookup or a failed
\* DELETE makes it return false, only two successful calls make it return
\* true, and the DELETE is sent only after a successful lookup.
DeleteNeverRaises ==
    [][/\ (pc = "delete_lookup" /\ pc' # pc) =>
             IF rstate = "returned"
             THEN pc' = "delete" /\ deleted' = deleted
             ELSE deleted' = "false"
       /\ (pc = "delete" /\ pc' # pc) =>
             deleted' = (IF rstate = "returned" THEN "true" ELSE "false")
       /\ (pc' = "delete" /\ pc # pc') =>
             (pc = "delete_lookup" /\ rstate = "returned")]_vars

\* C17: a transient network failure of an asset download or upload is
\* retried by the client (3 attempts) before it fails the sync.
TransfersAreRetried ==
    (calls # <<>> /\ Last(calls).op \in {"DOWNLOAD", "UPLOAD"}
        /\ err = "ConnectionError")
      => /\ Len(calls) >= 3
         /\ calls[Len(calls) - 1] = Last(calls)
         /\ calls[Len(calls) - 2] = Last(calls)

FetchFailed == calls # <<>> /\ Last(calls).op = "GET_SOURCE"

NoMutationBeforeStaging ==
    /\ (Ops \cap Mutating # {}) =>
          /\ Len(DownloadCalls) = Len(release_info)
          /\ asset_files = FullyStaged
          /\ (release_info # <<>> => Len(manifest) >= 1)
    /\ \A i, j \in 1..Len(calls) :
          (calls[i].op \in {"GET_SOURCE", "DOWNLOAD"}
             /\ calls[j].op \in Mutating) => i < j
    /\ (err = "OSError" \/ (calls # <<>>
                             /\ Last(calls).op \in {"GET_SOURCE", "DOWNLOAD"}))
          => Ops \cap Mutating = {}

\* a forced run whose manifest could not be written
NoMutationBeforeStagingWitness ==
    /\ ~dry_run /\ force
    /\ err = "OSError"
    /\ hashed # <<>>
    /\ pc = "except"

\* C20: _make_request ends by returning a response with a successful
\* status or by raising GitHubAPIError: it never ends its loop without a
\* value and lets no other exception out.
MakeRequestReturnsOrRaises ==
    Finished =>
        /\ rstate \in {"returned", "raised"}
        /\ rstate = "returned" => IsSuccess(Last(outs))
        /\ rstate = "raised" => cause = <<Last(outs)>>

====
